---- MODULE Spec2Model ----
(***************************************************************************)
(* Model of the NAB account acquisition engine:                            *)
(*   handler.AccountsHandler  ->  service.accountService  ->  NABClient    *)
(* The browser client (browser.NABClient.GetAccounts) is a sequence of     *)
(* blocking chromedp calls run under a time-bounded context; the timer and *)
(* the caller's cancellation may fire between any two of them.             *)
(***************************************************************************)
EXTENDS Integers, Sequences, FiniteSets, TLC

\* ------------------------------------------------------------------ bounds
\* at most this many candidates of one selector list are visible on a page
MaxVisible == 2

\* ------------------------------------------------------------------ errors
\* An error is the chain of messages from the outermost wrapper to the
\* innermost error; nil is the empty chain.
Nil == <<>>

ErrAccountNotFound == <<"account not found">>

ErrServiceUnavailable == <<"service unavailable">>

ErrAuthenticationFailed == <<"authentication failed">>

\* context.DeadlineExceeded and context.Canceled, as returned by ctx.Err()
DeadlineExceeded == <<"context deadline exceeded">>

Canceled == <<"context canceled">>

\* any failure reported by the browser engine itself (net error, node not
\* clickable, browser failed to start, ...)
EngineErr == <<"chromedp: engine failure">>

\* fmt.Errorf(msg) and fmt.Errorf(msg + ": %w", err)
Errorf(msg) == <<msg>>

Wrapf(msg, err) == <<msg>> \o err

\* errors.Is(err, target)
Is(err, target) ==
    \E i \in 1..Len(err) : SubSeq(err, i, Len(err)) = target

\* --------------------------------------------------------- selector lists
loginButtonSelectors ==
    << "button[class*=\"login\"]",
       "a[class*=\"login\"]",
       "[role=\"button\"][class*=\"login\"]",
       "button[title*=\"Login\"]",
       "a[title*=\"Login\"]",
       ".header button",
       ".navigation button",
       "button",
       "a[href*=\"login\"]" >>

internetBankingSelectors ==
    << "a[href*=\"internet-banking\"]",
       "a[href*=\"internetbanking\"]",
       "a[title*=\"Internet Banking\"]",
       "[role=\"menuitem\"][href*=\"banking\"]",
       ".dropdown a[href*=\"banking\"]",
       ".menu a[href*=\"banking\"]",
       "a[href*=\"personal/online-banking\"]" >>

loginSelectors ==
    << "input[name=\"userid\"]",
       "input[id=\"userid\"]",
       "input[type=\"text\"][placeholder*=\"ID\"]",
       "input[type=\"text\"][placeholder*=\"username\"]" >>

passwordSelectors ==
    << "input[name=\"password\"]",
       "input[id=\"password\"]",
       "input[type=\"password\"]" >>

submitSelectors ==
    << "input[type=\"submit\"]",
       "button[type=\"submit\"]",
       "button[class*=\"submit\"]",
       "input[value*=\"Log\"]",
       "button[class*=\"login\"]" >>

bodySelector == << "body" >>

\* the logical roles and the candidate list of each
Roles == {"body", "loginButton", "internetBanking", "username", "password",
          "submit", "bodyAfterLogin"}

Selectors(role) ==
    CASE role = "loginButton"     -> loginButtonSelectors
      [] role = "internetBanking" -> internetBankingSelectors
      [] role = "username"        -> loginSelectors
      [] role = "password"        -> passwordSelectors
      [] role = "submit"          -> submitSelectors
      [] OTHER                    -> bodySelector

\* the pages the environment can present: which candidates of a role are
\* visible (by position in the role's list)
VisChoices(role) ==
    {S \in SUBSET (1..Len(Selectors(role))) : Cardinality(S) <= MaxVisible}

NoneVisible == [r \in Roles |-> {}]

\* ------------------------------------------------------------ config (NABConfig)
Username == "nab-user"

Password == "nab-secret"

BaseURL == "https://www.nab.com.au"

\* ------------------------------------------------------- model.Account
AccountTypeSavings == "savings"

AccountTypeChecking == "checking"

\* a string as the sequence of its characters
Digits == {"0", "1", "2", "3", "4", "5", "6", "7", "8", "9"}

\* model.Account; a nil pointer field is the value "nil"
Account(id, name, type, amount, number, bsb) ==
    [ ID |-> id, Name |-> name, Type |-> type,
      Balance |-> [Amount |-> amount],
      AvailableBalance |-> [Amount |-> amount],
      AccountNumber |-> number, BSB |-> bsb, LastUpdated |-> "nil" ]

\* ------------------------------------------- extractAccountsGeneric (regexp)
\* end of the longest run of [\d,] characters that starts at position j
\* (j-1 when s[j] is not such a character)
RECURSIVE RunEnd(_, _)
RunEnd(s, j) ==
    IF j <= Len(s) /\ s[j] \in Digits \cup {","}
    THEN RunEnd(s, j + 1)
    ELSE j - 1

\* end of the match of \$[\d,]+\.[\d]{2} that starts at position i, 0 if none
MatchEnd(s, i) ==
    IF i <= Len(s) /\ s[i] = "$"
    THEN LET k == RunEnd(s, i + 1) IN
         IF /\ k >= i + 1
            /\ k + 3 <= Len(s)
            /\ s[k + 1] = "."
            /\ s[k + 2] \in Digits
            /\ s[k + 3] \in Digits
         THEN k + 3
         ELSE 0
    ELSE 0

\* balanceRegex.FindAllString(s, -1) on the text from position i on:
\* leftmost, non-overlapping matches in text order
RECURSIVE FindAllFrom(_, _)
FindAllFrom(s, i) ==
    IF i > Len(s) THEN << >>
    ELSE LET e == MatchEnd(s, i) IN
         IF e > 0 THEN << SubSeq(s, i, e) >> \o FindAllFrom(s, e + 1)
         ELSE FindAllFrom(s, i + 1)

FindAllString(s) == FindAllFrom(s, 1)

\* strings.TrimPrefix(balance, "$")
TrimPrefixDollar(b) ==
    IF Len(b) >= 1 /\ b[1] = "$" THEN SubSeq(b, 2, Len(b)) ELSE b

\* strings.ReplaceAll(b, ",", "")
RECURSIVE RemoveCommas(_)
RemoveCommas(b) ==
    IF b = << >> THEN << >>
    ELSE IF Head(b) = "," THEN RemoveCommas(Tail(b))
    ELSE << Head(b) >> \o RemoveCommas(Tail(b))

cleanBalance(balance) == RemoveCommas(TrimPrefixDollar(balance))

\* variant: every account is given the number of matches as its index
extractAccountsGeneric_CountAsIndex(pageSource) ==
    LET balances == FindAllString(pageSource) IN
    [ i \in 1..Len(balances) |->
        Account("account_" \o ToString(Len(balances)),
                "NAB Account " \o ToString(Len(balances)),
                AccountTypeSavings,
                cleanBalance(balances[i]), "nil", "nil") ]

\* the account list built from the page source; a failed read leaves the
\* page source empty
extractAccountsGeneric(pageSource) ==
    LET balances == FindAllString(pageSource) IN
    [ i \in 1..Len(balances) |->
        Account("account_" \o ToString(i),
                "NAB Account " \o ToString(i),
                AccountTypeSavings,
                cleanBalance(balances[i]), "nil", "nil") ]

\* the post-login pages the environment can present (outer HTML as text)
PageSources ==
    { << >>,
      << "<", "p", ">", "n", "o", "n", "e" >>,
      << "$", "1", ",", "2", "3", "4", ".", "5", "6" >>,
      << "$", "5", ".", "0", "0", " ", "$", "7", ".", "2", "5", "x" >> }

\* ------------------------------------------------- extractAccountType
AccountTypeCredit == "credit"

AccountTypeLoan == "loan"

AccountTypeInvestment == "investment"

UpperLetters ==
    << "A", "B", "C", "D", "E", "F", "G", "H", "I", "J", "K", "L", "M",
       "N", "O", "P", "Q", "R", "S", "T", "U", "V", "W", "X", "Y", "Z" >>

LowerLetters ==
    << "a", "b", "c", "d", "e", "f", "g", "h", "i", "j", "k", "l", "m",
       "n", "o", "p", "q", "r", "s", "t", "u", "v", "w", "x", "y", "z" >>

\* strings.ToLower, on a text given as its characters
ToLowerChar(c) ==
    IF \E k \in 1..Len(UpperLetters) : UpperLetters[k] = c
    THEN LowerLetters[CHOOSE k \in 1..Len(UpperLetters) : UpperLetters[k] = c]
    ELSE c

ToLower(text) == [i \in 1..Len(text) |-> ToLowerChar(text[i])]

\* strings.Contains
Contains(text, sub) ==
    \E i \in 1..(Len(text) - Len(sub) + 1) :
        SubSeq(text, i, i + Len(sub) - 1) = sub

\* the keywords extractAccountType looks for
kwSaver == << "s", "a", "v", "e", "r" >>

kwSavings == << "s", "a", "v", "i", "n", "g", "s" >>

kwCredit == << "c", "r", "e", "d", "i", "t" >>

kwLoan == << "l", "o", "a", "n" >>

kwInvestment == << "i", "n", "v", "e", "s", "t", "m", "e", "n", "t" >>

\* variant: the text is searched as it is, without lower-casing
extractAccountType_CaseSensitive(text) ==
    LET textLower == text IN
    IF Contains(textLower, kwSaver) \/ Contains(textLower, kwSavings)
    THEN AccountTypeSavings
    ELSE IF Contains(textLower, kwCredit) THEN AccountTypeCredit
    ELSE IF Contains(textLower, kwLoan) THEN AccountTypeLoan
    ELSE IF Contains(textLower, kwInvestment) THEN AccountTypeInvestment
    ELSE AccountTypeChecking

extractAccountType(text) ==
    LET textLower == ToLower(text) IN
    IF Contains(textLower, kwSaver) \/ Contains(textLower, kwSavings)
    THEN AccountTypeSavings
    ELSE IF Contains(textLower, kwCredit) THEN AccountTypeCredit
    ELSE IF Contains(textLower, kwLoan) THEN AccountTypeLoan
    ELSE IF Contains(textLower, kwInvestment) THEN AccountTypeInvestment
    ELSE AccountTypeChecking

\* ------------------------------------------------------ extractBalance
\* end of the match of ([\d,]+\.[\d]{2}) that starts at position j, 0 if none
GroupEnd(s, j) ==
    LET k == RunEnd(s, j) IN
    IF /\ k >= j
       /\ k + 3 <= Len(s)
       /\ s[k + 1] = "."
       /\ s[k + 2] \in Digits
       /\ s[k + 3] \in Digits
    THEN k + 3
    ELSE 0

\* the submatch of \$?([\d,]+\.[\d]{2}) for a match that starts at position
\* i: the optional '$' is taken when it is there; << >> when no match starts
\* at i
SubmatchAt(s, i) ==
    LET j == IF i <= Len(s) /\ s[i] = "$" THEN i + 1 ELSE i
        e == GroupEnd(s, j)
    IN IF e > 0 THEN SubSeq(s, j, e) ELSE << >>

\* re.FindStringSubmatch(text)[1]: the group of the leftmost match, << >>
\* when there is no match
RECURSIVE FindStringSubmatchFrom(_, _)
FindStringSubmatchFrom(s, i) ==
    IF i > Len(s) THEN << >>
    ELSE IF SubmatchAt(s, i) # << >> THEN SubmatchAt(s, i)
    ELSE FindStringSubmatchFrom(s, i + 1)

extractBalance(text) == RemoveCommas(FindStringSubmatchFrom(text, 1))

\* ------------------------------------------------------------- config
\* durations are counted in milliseconds
Millisecond == 1

Second == 1000 * Millisecond

Minute == 60 * Second

Hour == 60 * Minute

\* the unit table of time.ParseDuration, for the units of a millisecond and
\* more; 0 for a string that is not a unit
UnitOf(u) ==
    CASE u = << "m", "s" >> -> Millisecond
      [] u = << "s" >>      -> Second
      [] u = << "m" >>      -> Minute
      [] u = << "h" >>      -> Hour
      [] OTHER              -> 0

\* end of the run of digits that starts at position i (i-1 when none)
RECURSIVE DigitsEnd(_, _)
DigitsEnd(s, i) ==
    IF i <= Len(s) /\ s[i] \in Digits THEN DigitsEnd(s, i + 1) ELSE i - 1

\* end of the run of unit characters that starts at position i (i-1 when none)
RECURSIVE UnitEnd(_, _)
UnitEnd(s, i) ==
    IF i <= Len(s) /\ s[i] \notin Digits \cup {"."} THEN UnitEnd(s, i + 1)
    ELSE i - 1

DigitValue(c) == CHOOSE v \in 0..9 : ToString(v) = c

\* the number written by the digits s[a..b]
RECURSIVE Atoi(_, _, _)
Atoi(s, a, b) ==
    IF b < a THEN 0 ELSE 10 * Atoi(s, a, b - 1) + DigitValue(s[b])

\* the (number unit)+ part of time.ParseDuration from position i on
RECURSIVE ParseGroups(_, _)
ParseGroups(s, i) ==
    IF i > Len(s) THEN [ok |-> TRUE, d |-> 0]
    ELSE LET de == DigitsEnd(s, i)
             ue == UnitEnd(s, de + 1)
         IN IF de < i \/ ue < de + 1 \/ UnitOf(SubSeq(s, de + 1, ue)) = 0
            THEN [ok |-> FALSE, d |-> 0]
            ELSE LET rest == ParseGroups(s, ue + 1) IN
                 IF ~rest.ok THEN rest
                 ELSE [ok |-> TRUE,
                       d |-> Atoi(s, i, de) * UnitOf(SubSeq(s, de + 1, ue)) + rest.d]

\* time.ParseDuration on whole numbers with units: an optional sign, then "0"
\* or one or more groups of digits and a unit; a number without a unit is an
\* error ("missing unit in duration")
ParseDuration(s) ==
    LET neg == s # << >> /\ s[1] = "-"
        body == IF s # << >> /\ s[1] \in {"-", "+"} THEN Tail(s) ELSE s
    IN IF body = << "0" >> THEN [ok |-> TRUE, d |-> 0]
       ELSE IF body = << >> THEN [ok |-> FALSE, d |-> 0]
       ELSE LET r == ParseGroups(body, 1) IN
            IF r.ok /\ neg THEN [ok |-> TRUE, d |-> 0 - r.d] ELSE r

\* parseDurationOrDefault, given the value os.Getenv returned
parseDurationOrDefault(value, defaultValue) ==
    IF value # << >> /\ ParseDuration(value).ok THEN ParseDuration(value).d
    ELSE defaultValue

\* LoadConfig with the credentials set: the browser part of the config
LoadedConfig(value) ==
    [loaded |-> TRUE,
     BrowserTimeout |-> parseDurationOrDefault(value, 30 * Second)]

NoConfig == [loaded |-> FALSE, BrowserTimeout |-> 0]

\* variant: the listing lacks its third account
mockAccounts_TwoAccounts ==
    << Account("12345678", "Complete Access Account", AccountTypeSavings,
               << "2", "5", "4", "3", ".", "6", "7" >>, "****5678", "084001"),
       Account("87654321", "NAB Classic Banking Account", AccountTypeChecking,
               << "8", "4", "7", ".", "2", "3" >>, "****4321", "084001") >>

\* ------------------------------------------------------------ MockNABClient
mockAccounts ==
    << Account("12345678", "Complete Access Account", AccountTypeSavings,
               << "2", "5", "4", "3", ".", "6", "7" >>, "****5678", "084001"),
       Account("87654321", "NAB Classic Banking Account", AccountTypeChecking,
               << "8", "4", "7", ".", "2", "3" >>, "****4321", "084001"),
       Account("11223344", "NAB Reward Saver", AccountTypeSavings,
               << "1", "5", "4", "2", "0", ".", "8", "9" >>, "****3344", "084001") >>

\* variant: the transaction IDs do not carry the account ID
mockTransactions_PlainIDs(accountID) ==
    << [ID |-> "txn_001",
        Description |-> "EFTPOS Purchase - COLES SUPERMARKET"],
       [ID |-> "txn_002",
        Description |-> "Direct Credit - SALARY PAYMENT"],
       [ID |-> "txn_003",
        Description |-> "ATM Withdrawal - NAB ATM"] >>

\* MockNABClient.GetAccountTransactions: three transactions whose IDs end in
\* the account ID
mockTransactions(accountID) ==
    << [ID |-> "txn_001_" \o accountID,
        Description |-> "EFTPOS Purchase - COLES SUPERMARKET"],
       [ID |-> "txn_002_" \o accountID,
        Description |-> "Direct Credit - SALARY PAYMENT"],
       [ID |-> "txn_003_" \o accountID,
        Description |-> "ATM Withdrawal - NAB ATM"] >>

\* ------------------------------------------------------------------ state
VARIABLES
    pc,          \* position of the request: handler, service, client step
    req,         \* the request: operation, account ID, client in use
    ctx,         \* allocCtx / browserCtx / timeoutCtx of the GetAccounts call
    released,    \* contexts whose cancel function has been called
    visible,     \* current page: visible candidates (positions) per role
    pageSource,  \* current page: outer HTML text
    idx,         \* loop position in the candidate list being probed
    found,       \* usernameSelector / passwordSelector / submitSelector, and
                 \* the selector the click steps resolved
    runErr,      \* err returned by chromedp.Run
    result,      \* what the client's GetAccounts returned
    calls,       \* browser-engine calls issued so far, in order
    log,         \* records written to the logger, in order
    expiredAt,   \* step during which the session timer fired ("none" if not)
    cancelledAt, \* step during which the caller cancelled ("none" if not)
    failedAt,    \* step whose error ended chromedp.Run ("none" if none)
    svcResult,   \* what the accountService method returned
    txnCalls,    \* account IDs passed to the client's GetAccountTransactions
    http,        \* the HTTP response written by the handler
    fields,      \* current page: text typed into the username / password field
    shots,       \* screenshots captured so far: reason tag and what they show
    other,       \* a second GetAccounts call on the same client, if any
    env,         \* value of the environment variable BROWSER_TIMEOUT
    config,      \* what LoadConfig returned (browser part)
    input,       \* argument of an extraction helper
    extracted,   \* what the extraction helper returned
    clientCalls  \* methods of the client called so far, in order

vars == << pc, req, ctx, released, visible, pageSource, idx, found, runErr,
           result, calls, log, expiredAt, cancelledAt, failedAt, svcResult,
           txnCalls, http, fields, shots, other,
                    env, config, input, extracted, clientCalls >>

\* account IDs a request may ask for
AccountIDs ==
    {"", "12345678", "87654321", "11223344", "account_1", "account_2",
     "doesnotexist"}

\* handler.ListAccounts, handler.GetAccount, or GetAccounts called directly
\* (cmd/test-browser)
Requests ==
    [op : {"ListAccounts"}, accountID : {""}, client : {"mock", "browser"}]
      \cup [op : {"GetAccount"}, accountID : AccountIDs, client : {"mock", "browser"}]
      \cup [op : {"GetAccounts"}, accountID : {""}, client : {"browser"}]

\* a returned (list, error) pair; isNil tells a nil slice from an empty one,
\* details is the *AccountDetails pointer (empty when nil)
Result(accounts, isNil, details, err) ==
    [accounts |-> accounts, isNil |-> isNil, details |-> details,
     err |-> err, set |-> TRUE]

NoResult ==
    [accounts |-> << >>, isNil |-> TRUE, details |-> << >>, err |-> Nil,
     set |-> FALSE]

NoHTTP == [status |-> 0, error |-> "", count |-> 0]

\* the login form before anything is typed
NoFields == [f \in {"username", "password"} |-> ""]

\* no second call
\* no extraction helper has run
NoExtracted == [fn |-> "none", type |-> "", balance |-> << >>]

NoOther ==
    [pc |-> "none",
     ctx |-> [c \in {"timeoutCtx", "browserCtx", "allocCtx"} |-> "none"],
     runErr |-> Nil, pageSource |-> << >>, result |-> NoResult,
     log |-> << >>, overlap |-> FALSE]

Init ==
    /\ pc = "idle"
    /\ req \in Requests
    /\ ctx = [c \in {"timeoutCtx", "browserCtx", "allocCtx"} |-> "none"]
    /\ released = {}
    /\ visible = NoneVisible
    /\ pageSource = << >>
    /\ idx = 0
    /\ found = [r \in Roles |-> ""]
    /\ runErr = Nil
    /\ result = NoResult
    /\ calls = << >>
    /\ log = << >>
    /\ expiredAt = "none"
    /\ cancelledAt = "none"
    /\ failedAt = "none"
    /\ svcResult = NoResult
    /\ txnCalls = << >>
    /\ http = NoHTTP
    /\ fields = NoFields
    /\ shots = << >>
    /\ other = NoOther
    /\ env = << >>
    /\ config = LoadedConfig(env)
    /\ input = << >>
    /\ extracted = NoExtracted
    /\ clientCalls = << >>

\* ------------------------------------------------------------- contexts
\* ctx.Err() of a context: nil while live
CtxErr(c) ==
    CASE ctx[c] = "deadline" -> DeadlineExceeded
      [] ctx[c] = "canceled" -> Canceled
      [] OTHER               -> Nil

CtxDone(c) == ctx[c] \in {"deadline", "canceled"}

\* steps of GetAccounts in which a browser-engine call is pending
RunSteps ==
    {"Run", "Navigate", "WaitBody", "clickLoginButton", "clickLoginButton_Click",
     "selectInternetBanking_Sleep", "selectInternetBanking",
     "selectInternetBanking_Click", "findUsername", "findPassword",
     "findSubmit", "SendKeysUsername", "SendKeysPassword", "ClickSubmit",
     "WaitBodyAfterLogin", "Sleep", "scrapeAccounts_Sleep", "scrapeAccounts"}

InProgress == pc \in RunSteps \cup {"failed"}

\* outcome of an engine call that does not wait for the page: the context's
\* error when the context is done, else success or an engine failure
EngineOutcomes(c) ==
    IF CtxDone(c) THEN {CtxErr(c)} ELSE {Nil, EngineErr}

\* chromedp.Sleep: ends early only with the context's error
SleepOutcome(c) == CtxErr(c)

\* chromedp.WaitVisible polls until the element is visible or the context is
\* done; it has no timeout of its own
WaitVisibleReturns(role, i) == CtxDone("timeoutCtx") \/ i \in visible[role]

WaitVisibleOutcome(role, i) == CtxErr("timeoutCtx")

\* record of one engine call
Call(op, role, sel, arg, err) ==
    [op |-> op, role |-> role, sel |-> sel, arg |-> arg, err |-> err]

\* record written to the logger: format string and its arguments
LogRec(msg, sel, err, n) == [msg |-> msg, sel |-> sel, err |-> err, n |-> n]

\* takeScreenshot(ctx, suffix): one CaptureScreenshot call, whose error is
\* dropped; a record is logged only when the capture succeeded
takeScreenshotCall(suffix, e) == Call("CaptureScreenshot", "", "", suffix, e)

takeScreenshotLog(suffix, e) ==
    IF e = Nil THEN << LogRec("Screenshot captured: %s", suffix, Nil, 0) >>
    ELSE << >>

\* what the browser renders of the login form: the username field shows its
\* text, a password field shows one mask character per character typed
RECURSIVE Masked(_)
Masked(n) == IF n = 0 THEN "" ELSE "*" \o Masked(n - 1)

Rendered(f) ==
    {f["username"], Masked(Len(f["password"]))} \ {""}

\* the image chromedp.CaptureScreenshot fills buf with, when it succeeds
takeScreenshotShot(suffix, e) ==
    IF e = Nil THEN << [suffix |-> suffix, content |-> Rendered(fields)] >>
    ELSE << >>

\* variant: only the last cancel function is deferred
DeferredCancels_OnlyLast == {"timeoutCtx"}

\* the cancel functions GetAccounts defers
DeferredCancels == {"timeoutCtx", "browserCtx", "allocCtx"}

\* a context and the contexts it is derived from
Ancestors(c) ==
    CASE c = "timeoutCtx" -> {"timeoutCtx", "browserCtx", "allocCtx"}
      [] c = "browserCtx" -> {"browserCtx", "allocCtx"}
      [] OTHER            -> {"allocCtx"}

\* the contexts after the cancel functions of cs ran: a cancel function
\* cancels its context and every context derived from it
AfterCancel(cs) ==
    [c \in DOMAIN ctx |->
        IF ctx[c] = "live" /\ Ancestors(c) \cap cs # {} THEN "canceled"
        ELSE ctx[c]]

\* ------------------------------------------------------- handler entry
\* ListAccounts / GetAccount up to the call into the service, or a direct
\* call of the client
Request ==
    /\ pc = "idle"
    /\ IF req.op = "GetAccount" /\ req.accountID = ""
       THEN /\ http' = [status |-> 400, error |-> "INVALID_REQUEST", count |-> 0]
            /\ pc' = "responded"
       ELSE /\ http' = http
            /\ pc' = "GetAccounts"
    /\ log' = IF req.op = "GetAccounts" THEN log
              ELSE Append(log, LogRec(req.op \o ": %s %s", req.accountID, Nil, 0))
    /\ UNCHANGED << req, ctx, released, visible, pageSource, idx, found,
                    runErr, result, calls, expiredAt, cancelledAt, failedAt,
                    svcResult, txnCalls, fields, shots, other,
                    env, config, input, extracted, clientCalls >>

\* MockNABClient.GetAccounts
MockGetAccounts ==
    /\ pc = "GetAccounts"
    /\ req.client = "mock"
    /\ result' = Result(mockAccounts, FALSE, << >>, Nil)
    /\ clientCalls' = Append(clientCalls, "GetAccounts")
    /\ pc' = "returned"
    /\ UNCHANGED << req, ctx, released, visible, pageSource, idx, found,
                    runErr, calls, log, expiredAt, cancelledAt, failedAt,
                    svcResult, txnCalls, http, fields, shots, other,
                    env, config, input, extracted >>

\* -------------------------------------------------- NABClient.GetAccounts
\* entry: the three contexts are created
GetAccounts ==
    /\ pc = "GetAccounts"
    /\ req.client = "browser"
    /\ log' = Append(log, LogRec("Starting NAB account scraping...", "", Nil, 0))
    /\ ctx' = [c \in DOMAIN ctx |-> "live"]
    /\ clientCalls' = Append(clientCalls, "GetAccounts")
    /\ pc' = "Run"
    /\ UNCHANGED << req, released, visible, pageSource, idx, found, runErr,
                    result, calls, expiredAt, cancelledAt, failedAt, svcResult,
                    txnCalls, http, fields, shots, other,
                    env, config, input, extracted >>

\* the session timer of timeoutCtx fires while an engine call is pending
Expire ==
    /\ InProgress
    /\ expiredAt = "none"
    /\ ctx["timeoutCtx"] = "live"
    /\ ctx' = [ctx EXCEPT !["timeoutCtx"] = "deadline"]
    /\ expiredAt' = pc
    /\ UNCHANGED << pc, req, released, visible, pageSource, idx, found, runErr,
                    result, calls, log, cancelledAt, failedAt, svcResult,
                    txnCalls, http, fields, shots, other,
                    env, config, input, extracted, clientCalls >>

\* the caller cancels the context it passed to GetAccounts (the mock client
\* is handed the context too, before it runs)
CallerCancel ==
    /\ InProgress \/ (pc = "GetAccounts" /\ req.client = "mock")
    /\ cancelledAt = "none"
    /\ ctx' = [c \in DOMAIN ctx |-> IF ctx[c] = "live" THEN "canceled" ELSE ctx[c]]
    /\ cancelledAt' = pc
    /\ UNCHANGED << pc, req, released, visible, pageSource, idx, found, runErr,
                    result, calls, log, expiredAt, failedAt, svcResult,
                    txnCalls, http, fields, shots, other,
                    env, config, input, extracted, clientCalls >>

\* chromedp.Run starts the browser and its target before the first action
Run ==
    /\ pc = "Run"
    /\ \E e \in EngineOutcomes("timeoutCtx") :
        /\ calls' = Append(calls, Call("Allocate", "", "", "", e))
        /\ IF e = Nil
           THEN /\ pc' = "Navigate"
                /\ UNCHANGED << runErr, failedAt >>
           ELSE /\ pc' = "failed"
                /\ runErr' = e
                /\ failedAt' = "Run"
    /\ UNCHANGED << req, ctx, released, visible, pageSource, idx, found,
                    result, log, expiredAt, cancelledAt, svcResult, txnCalls,
                    http, fields, shots, other,
                    env, config, input, extracted, clientCalls >>

\* chromedp.Navigate(c.config.BaseURL); the home page is then what it is
Navigate ==
    /\ pc = "Navigate"
    /\ \E e \in EngineOutcomes("timeoutCtx") :
        /\ calls' = Append(calls, Call("Navigate", "", "", BaseURL, e))
        /\ IF e = Nil
           THEN /\ pc' = "WaitBody"
                /\ \E b \in VisChoices("body"), v \in VisChoices("loginButton") :
                     visible' = [NoneVisible EXCEPT !["body"] = b,
                                                    !["loginButton"] = v]
                /\ UNCHANGED << runErr, failedAt >>
           ELSE /\ pc' = "failed"
                /\ runErr' = e
                /\ failedAt' = "Navigate"
                /\ UNCHANGED visible
    /\ UNCHANGED << req, ctx, released, pageSource, idx, found, result, log,
                    expiredAt, cancelledAt, svcResult, txnCalls, http, fields,
                    shots, other,
                    env, config, input, extracted, clientCalls >>

\* chromedp.WaitVisible(`body`) after the navigation
WaitBody ==
    /\ pc = "WaitBody"
    /\ WaitVisibleReturns("body", 1)
    /\ LET e == WaitVisibleOutcome("body", 1) IN
        /\ calls' = Append(calls, Call("WaitVisible", "body", bodySelector[1], "", e))
        /\ IF e = Nil
           THEN /\ pc' = "clickLoginButton"
                /\ idx' = 1
                /\ UNCHANGED << runErr, failedAt >>
           ELSE /\ pc' = "failed"
                /\ runErr' = e
                /\ failedAt' = "WaitBody"
                /\ UNCHANGED idx
    /\ UNCHANGED << req, ctx, released, visible, pageSource, found, result,
                    log, expiredAt, cancelledAt, svcResult, txnCalls, http,
                    fields, shots, other,
                    env, config, input, extracted, clientCalls >>

\* variant: the error of an action is dropped and the run goes on to the
\* extraction
RunFails_KeepsGoing(e, step) ==
    /\ pc' = "scrapeAccounts_Sleep"
    /\ runErr' = runErr
    /\ failedAt' = failedAt

\* variant: the action that failed is attempted again
RunFails_Retries(e, step) ==
    /\ pc' = step
    /\ runErr' = runErr
    /\ failedAt' = failedAt

\* chromedp.Run stops at the first action that returns an error
RunFails(e, step) ==
    /\ pc' = "failed"
    /\ runErr' = e
    /\ failedAt' = step

\* ------------------------------------------------------ clickLoginButton
\* one iteration of the loop over loginButtonSelectors; after the last
\* failed candidate, the screenshot and the not-found error
clickLoginButton ==
    /\ pc = "clickLoginButton"
    /\ WaitVisibleReturns("loginButton", idx)
    /\ LET selector == loginButtonSelectors[idx]
           err == WaitVisibleOutcome("loginButton", idx)
           probe == Call("WaitVisible", "loginButton", selector, "", err)
           entry == IF idx = 1
                    THEN << LogRec("Clicking Login button...", "", Nil, 0) >>
                    ELSE << >>
       IN
       IF err = Nil
       THEN /\ calls' = Append(calls, probe)
            /\ log' = log \o entry \o
                 << LogRec("Found login button with selector: %s", selector, Nil, 0) >>
            /\ found' = [found EXCEPT !["loginButton"] = selector]
            /\ pc' = "clickLoginButton_Click"
            /\ UNCHANGED << idx, runErr, failedAt, shots >>
       ELSE IF idx < Len(loginButtonSelectors)
       THEN /\ calls' = Append(calls, probe)
            /\ log' = log \o entry \o
                 << LogRec("Selector failed: %s - %v", selector, err, 0) >>
            /\ idx' = idx + 1
            /\ UNCHANGED << pc, found, runErr, failedAt, shots >>
       ELSE \E ce \in EngineOutcomes("timeoutCtx") :
            /\ calls' = calls \o
                 << probe, takeScreenshotCall("login_button_not_found", ce) >>
            /\ log' = log \o entry \o
                 << LogRec("Selector failed: %s - %v", selector, err, 0) >> \o
                 takeScreenshotLog("login_button_not_found", ce)
            /\ shots' = shots \o takeScreenshotShot("login_button_not_found", ce)
            /\ RunFails(Errorf("could not find login button"), "clickLoginButton")
            /\ UNCHANGED << idx, found >>
    /\ UNCHANGED << req, ctx, released, visible, pageSource, result, expiredAt,
                    cancelledAt, svcResult, txnCalls, http, fields, other,
                    env, config, input, extracted, clientCalls >>

\* chromedp.Click on the candidate that resolved; the dropdown then shows
clickLoginButton_Click ==
    /\ pc = "clickLoginButton_Click"
    /\ \E e \in EngineOutcomes("timeoutCtx") :
        /\ calls' = Append(calls, Call("Click", "loginButton", found["loginButton"], "", e))
        /\ IF e = Nil
           THEN /\ pc' = "selectInternetBanking_Sleep"
                /\ \E v \in VisChoices("internetBanking") :
                     visible' = [NoneVisible EXCEPT !["internetBanking"] = v]
                /\ UNCHANGED << runErr, failedAt >>
           ELSE /\ RunFails(e, "clickLoginButton_Click")
                /\ UNCHANGED visible
    /\ UNCHANGED << req, ctx, released, pageSource, idx, found, result, log,
                    expiredAt, cancelledAt, svcResult, txnCalls, http, fields,
                    shots, other,
                    env, config, input, extracted, clientCalls >>

\* ------------------------------------------------- selectInternetBanking
\* the one-second pause for the dropdown; its error is not looked at
selectInternetBanking_Sleep ==
    /\ pc = "selectInternetBanking_Sleep"
    /\ log' = Append(log, LogRec("Selecting Internet Banking from dropdown...", "", Nil, 0))
    /\ calls' = Append(calls, Call("Sleep", "", "", "1s", SleepOutcome("timeoutCtx")))
    /\ pc' = "selectInternetBanking"
    /\ idx' = 1
    /\ UNCHANGED << req, ctx, released, visible, pageSource, found, runErr,
                    result, expiredAt, cancelledAt, failedAt, svcResult,
                    txnCalls, http, fields, shots, other,
                    env, config, input, extracted, clientCalls >>

\* one iteration of the loop over internetBankingSelectors
selectInternetBanking ==
    /\ pc = "selectInternetBanking"
    /\ WaitVisibleReturns("internetBanking", idx)
    /\ LET selector == internetBankingSelectors[idx]
           err == WaitVisibleOutcome("internetBanking", idx)
           probe == Call("WaitVisible", "internetBanking", selector, "", err)
       IN
       IF err = Nil
       THEN /\ calls' = Append(calls, probe)
            /\ log' = Append(log,
                 LogRec("Found Internet Banking link with selector: %s", selector, Nil, 0))
            /\ found' = [found EXCEPT !["internetBanking"] = selector]
            /\ pc' = "selectInternetBanking_Click"
            /\ UNCHANGED << idx, runErr, failedAt, shots >>
       ELSE IF idx < Len(internetBankingSelectors)
       THEN /\ calls' = Append(calls, probe)
            /\ log' = Append(log,
                 LogRec("Internet Banking selector failed: %s - %v", selector, err, 0))
            /\ idx' = idx + 1
            /\ UNCHANGED << pc, found, runErr, failedAt, shots >>
       ELSE \E ce \in EngineOutcomes("timeoutCtx") :
            /\ calls' = calls \o
                 << probe, takeScreenshotCall("internet_banking_not_found", ce) >>
            /\ log' = log \o
                 << LogRec("Internet Banking selector failed: %s - %v", selector, err, 0) >> \o
                 takeScreenshotLog("internet_banking_not_found", ce)
            /\ shots' = shots \o takeScreenshotShot("internet_banking_not_found", ce)
            /\ RunFails(Errorf("could not find Internet Banking link in dropdown"),
                        "selectInternetBanking")
            /\ UNCHANGED << idx, found >>
    /\ UNCHANGED << req, ctx, released, visible, pageSource, result, expiredAt,
                    cancelledAt, svcResult, txnCalls, http, fields, other,
                    env, config, input, extracted, clientCalls >>

\* chromedp.Click on the candidate that resolved; the login form then shows
selectInternetBanking_Click ==
    /\ pc = "selectInternetBanking_Click"
    /\ \E e \in EngineOutcomes("timeoutCtx") :
        /\ calls' = Append(calls,
             Call("Click", "internetBanking", found["internetBanking"], "", e))
        /\ IF e = Nil
           THEN /\ pc' = "findUsername"
                /\ idx' = 1
                /\ \E u \in VisChoices("username"), p \in VisChoices("password"),
                      s \in VisChoices("submit") :
                     visible' = [NoneVisible EXCEPT !["username"] = u,
                                                    !["password"] = p,
                                                    !["submit"] = s]
                /\ UNCHANGED << runErr, failedAt >>
           ELSE /\ RunFails(e, "selectInternetBanking_Click")
                /\ UNCHANGED << visible, idx >>
    /\ UNCHANGED << req, ctx, released, pageSource, found, result, log,
                    expiredAt, cancelledAt, svcResult, txnCalls, http, fields,
                    shots, other,
                    env, config, input, extracted, clientCalls >>

\* ------------------------------------------------------------ performLogin
\* variant: the loop lacks its break and runs through the whole list
LoopBreaks_NoBreak(err) == FALSE

\* a loop over a candidate list ends at the first probe without error
LoopBreaks(err) == err = Nil

\* one iteration of one of the three loops of performLogin: probe the
\* candidate, remember it if the probe succeeded; when the loop is over,
\* the empty-selector check and the next loop
findField(step, role, next, notFound) ==
    /\ pc = step
    /\ WaitVisibleReturns(role, idx)
    /\ LET selector == Selectors(role)[idx]
           err == WaitVisibleOutcome(role, idx)
           found1 == IF err = Nil THEN [found EXCEPT ![role] = selector]
                     ELSE found
       IN
       /\ calls' = Append(calls, Call("WaitVisible", role, selector, "", err))
       /\ found' = found1
       /\ IF ~LoopBreaks(err) /\ idx < Len(Selectors(role))
          THEN /\ idx' = idx + 1
               /\ UNCHANGED << pc, runErr, failedAt >>
          ELSE IF found1[role] = ""
          THEN /\ RunFails(Errorf(notFound), step)
               /\ UNCHANGED idx
          ELSE /\ pc' = next
               /\ idx' = 1
               /\ UNCHANGED << runErr, failedAt >>
    /\ UNCHANGED << req, ctx, released, visible, pageSource, result, log,
                    expiredAt, cancelledAt, svcResult, txnCalls, http, fields,
                    shots, other,
                    env, config, input, extracted, clientCalls >>

findUsername ==
    findField("findUsername", "username", "findPassword",
              "could not find username input field")

\* variant: the typing starts once the password field resolved, without the
\* submit control
findPassword_ThenType ==
    findField("findPassword", "password", "SendKeysUsername",
              "could not find password input field")

findPassword ==
    findField("findPassword", "password", "findSubmit",
              "could not find password input field")

findSubmit ==
    findField("findSubmit", "submit", "SendKeysUsername",
              "could not find submit button")

\* chromedp.SendKeys of one credential into the field that resolved
sendKeys(step, role, text, next) ==
    /\ pc = step
    /\ \E e \in EngineOutcomes("timeoutCtx") :
        /\ calls' = Append(calls, Call("SendKeys", role, found[role], text, e))
        /\ IF e = Nil
           THEN /\ pc' = next
                /\ fields' = [fields EXCEPT ![role] = text]
                /\ UNCHANGED << runErr, failedAt >>
           ELSE /\ RunFails(e, step)
                /\ UNCHANGED fields
    /\ UNCHANGED << req, ctx, released, visible, pageSource, idx, found,
                    result, log, expiredAt, cancelledAt, svcResult, txnCalls,
                    http, shots, other,
                    env, config, input, extracted, clientCalls >>

SendKeysUsername ==
    sendKeys("SendKeysUsername", "username", Username, "SendKeysPassword")

SendKeysPassword ==
    sendKeys("SendKeysPassword", "password", Password, "ClickSubmit")

\* chromedp.Click on the submit control; the post-login page then shows
ClickSubmit ==
    /\ pc = "ClickSubmit"
    /\ \E e \in EngineOutcomes("timeoutCtx") :
        /\ calls' = Append(calls, Call("Click", "submit", found["submit"], "", e))
        /\ IF e = Nil
           THEN /\ pc' = "WaitBodyAfterLogin"
                /\ \E b \in VisChoices("bodyAfterLogin") :
                     visible' = [NoneVisible EXCEPT !["bodyAfterLogin"] = b]
                /\ pageSource' \in PageSources
                /\ fields' = NoFields
                /\ UNCHANGED << runErr, failedAt >>
           ELSE /\ RunFails(e, "ClickSubmit")
                /\ UNCHANGED << visible, pageSource, fields >>
    /\ UNCHANGED << req, ctx, released, idx, found, result, log, expiredAt,
                    cancelledAt, svcResult, txnCalls, http, shots, other,
                    env, config, input, extracted, clientCalls >>

\* ------------------------------------------ after the login: wait, settle
\* chromedp.WaitVisible(`body`) on the post-login page
WaitBodyAfterLogin ==
    /\ pc = "WaitBodyAfterLogin"
    /\ WaitVisibleReturns("bodyAfterLogin", 1)
    /\ LET e == WaitVisibleOutcome("bodyAfterLogin", 1) IN
        /\ calls' = Append(calls,
             Call("WaitVisible", "bodyAfterLogin", bodySelector[1], "", e))
        /\ IF e = Nil
           THEN /\ pc' = "Sleep"
                /\ UNCHANGED << runErr, failedAt >>
           ELSE RunFails(e, "WaitBodyAfterLogin")
    /\ UNCHANGED << req, ctx, released, visible, pageSource, idx, found,
                    result, log, expiredAt, cancelledAt, svcResult, txnCalls,
                    http, fields, shots, other,
                    env, config, input, extracted, clientCalls >>

\* chromedp.Sleep(3*time.Second) in the action list of chromedp.Run
Sleep ==
    /\ pc = "Sleep"
    /\ LET e == SleepOutcome("timeoutCtx") IN
        /\ calls' = Append(calls, Call("Sleep", "", "", "3s", e))
        /\ IF e = Nil
           THEN /\ pc' = "scrapeAccounts_Sleep"
                /\ UNCHANGED << runErr, failedAt >>
           ELSE RunFails(e, "Sleep")
    /\ UNCHANGED << req, ctx, released, visible, pageSource, idx, found,
                    result, log, expiredAt, cancelledAt, svcResult, txnCalls,
                    http, fields, shots, other,
                    env, config, input, extracted, clientCalls >>

\* --------------------------------------------------------- scrapeAccounts
\* the three-second pause inside scrapeAccounts; its error is not looked at
scrapeAccounts_Sleep ==
    /\ pc = "scrapeAccounts_Sleep"
    /\ calls' = Append(calls, Call("Sleep", "", "", "3s", SleepOutcome("timeoutCtx")))
    /\ pc' = "scrapeAccounts"
    /\ UNCHANGED << req, ctx, released, visible, pageSource, idx, found,
                    runErr, result, log, expiredAt, cancelledAt, failedAt,
                    svcResult, txnCalls, http, fields, shots, other,
                    env, config, input, extracted, clientCalls >>

\* variant: a page-source read that failed leaves the first half of the
\* text in pageSource
scrapeAccounts_HalfRead ==
    /\ pc = "scrapeAccounts"
    /\ \E e \in EngineOutcomes("timeoutCtx") :
        LET source == IF e = Nil THEN pageSource
                      ELSE SubSeq(pageSource, 1, Len(pageSource) \div 2)
            accounts == extractAccountsGeneric(source)
        IN
        /\ calls' = Append(calls, Call("OuterHTML", "", "html", "", e))
        /\ log' = log \o
             << LogRec("Extracting accounts from page source...", "", Nil, 0),
                LogRec("Successfully scraped %d accounts", "", Nil, Len(accounts)) >>
        /\ result' = Result(accounts, FALSE, << >>, Nil)
    /\ ctx' = AfterCancel(DeferredCancels)
    /\ released' = DeferredCancels
    /\ pc' = "returned"
    /\ UNCHANGED << req, visible, pageSource, idx, found, runErr, expiredAt,
                    cancelledAt, failedAt, svcResult, txnCalls, http, fields,
                    shots, other,
                    env, config, input, extracted, clientCalls >>

\* variant: an extraction that found nothing is returned as an error
scrapeAccounts_EmptyIsError ==
    /\ pc = "scrapeAccounts"
    /\ \E e \in EngineOutcomes("timeoutCtx") :
        LET source == IF e = Nil THEN pageSource ELSE << >>
            accounts == extractAccountsGeneric(source)
        IN
        /\ calls' = Append(calls, Call("OuterHTML", "", "html", "", e))
        /\ log' = log \o
             << LogRec("Extracting accounts from page source...", "", Nil, 0),
                LogRec("Successfully scraped %d accounts", "", Nil, Len(accounts)) >>
        /\ result' = IF accounts = << >>
                      THEN Result(<< >>, TRUE, << >>, Errorf("no accounts found"))
                      ELSE Result(accounts, FALSE, << >>, Nil)
    /\ ctx' = AfterCancel(DeferredCancels)
    /\ released' = DeferredCancels
    /\ pc' = "returned"
    /\ UNCHANGED << req, visible, pageSource, idx, found, runErr, expiredAt,
                    cancelledAt, failedAt, svcResult, txnCalls, http, fields,
                    shots, other,
                    env, config, input, extracted, clientCalls >>

\* the rest of scrapeAccounts (page-source read whose error is not looked
\* at, extraction, nil error), then the success return of GetAccounts with
\* its deferred cancels
scrapeAccounts ==
    /\ pc = "scrapeAccounts"
    /\ \E e \in EngineOutcomes("timeoutCtx") :
        LET source == IF e = Nil THEN pageSource ELSE << >>
            accounts == extractAccountsGeneric(source)
        IN
        /\ calls' = Append(calls, Call("OuterHTML", "", "html", "", e))
        /\ log' = log \o
             << LogRec("Extracting accounts from page source...", "", Nil, 0),
                LogRec("Successfully scraped %d accounts", "", Nil, Len(accounts)) >>
        /\ result' = Result(accounts, FALSE, << >>, Nil)
    /\ ctx' = AfterCancel(DeferredCancels)
    /\ released' = DeferredCancels
    /\ pc' = "returned"
    /\ UNCHANGED << req, visible, pageSource, idx, found, runErr, expiredAt,
                    cancelledAt, failedAt, svcResult, txnCalls, http, fields,
                    shots, other,
                    env, config, input, extracted, clientCalls >>

\* variant: an error of the capture is returned in place of the error of
\* the run
GetAccounts_Failed_CaptureErrorWins ==
    /\ pc = "failed"
    /\ \E ce \in EngineOutcomes("timeoutCtx") :
        /\ calls' = Append(calls, takeScreenshotCall("error", ce))
        /\ log' = log \o takeScreenshotLog("error", ce)
        /\ shots' = shots \o takeScreenshotShot("error", ce)
        /\ result' = Result(<< >>, TRUE, << >>,
                            IF ce # Nil
                            THEN Wrapf("failed to capture screenshot", ce)
                            ELSE Wrapf("failed to scrape NAB accounts", runErr))
    /\ ctx' = AfterCancel(DeferredCancels)
    /\ released' = DeferredCancels
    /\ pc' = "returned"
    /\ UNCHANGED << req, visible, pageSource, idx, found, runErr, expiredAt,
                    cancelledAt, failedAt, svcResult, txnCalls, http, fields,
                    other,
                    env, config, input, extracted, clientCalls >>

\* variant: the capture runs on browserCtx, which has no deadline
GetAccounts_Failed_CaptureOnBrowserCtx ==
    /\ pc = "failed"
    /\ \E ce \in EngineOutcomes("browserCtx") :
        /\ calls' = Append(calls, takeScreenshotCall("error", ce))
        /\ log' = log \o takeScreenshotLog("error", ce)
        /\ shots' = shots \o takeScreenshotShot("error", ce)
    /\ result' = Result(<< >>, TRUE, << >>,
                        Wrapf("failed to scrape NAB accounts", runErr))
    /\ ctx' = AfterCancel(DeferredCancels)
    /\ released' = DeferredCancels
    /\ pc' = "returned"
    /\ UNCHANGED << req, visible, pageSource, idx, found, runErr, expiredAt,
                    cancelledAt, failedAt, svcResult, txnCalls, http, fields,
                    other, env, config, input, extracted, clientCalls >>

\* the error return of GetAccounts: screenshot, wrapped error, deferred
\* cancels
GetAccounts_Failed ==
    /\ pc = "failed"
    /\ \E ce \in EngineOutcomes("timeoutCtx") :
        /\ calls' = Append(calls, takeScreenshotCall("error", ce))
        /\ log' = log \o takeScreenshotLog("error", ce)
        /\ shots' = shots \o takeScreenshotShot("error", ce)
    /\ result' = Result(<< >>, TRUE, << >>,
                        Wrapf("failed to scrape NAB accounts", runErr))
    /\ ctx' = AfterCancel(DeferredCancels)
    /\ released' = DeferredCancels
    /\ pc' = "returned"
    /\ UNCHANGED << req, visible, pageSource, idx, found, runErr, expiredAt,
                    cancelledAt, failedAt, svcResult, txnCalls, http, fields,
                    other,
                    env, config, input, extracted, clientCalls >>

\* variant: the scraping client returns transactions too
GetAccountTransactions_BrowserHasSome(client, accountID) ==
    mockTransactions(accountID)

\* NABClient.GetAccountTransactions (browser): logs, returns an empty list
\* MockNABClient.GetAccountTransactions: the three mock transactions
GetAccountTransactions(client, accountID) ==
    IF client = "mock" THEN mockTransactions(accountID) ELSE << >>

\* variant: only the first account is stamped
GetAllAccounts_StampsFirst ==
    /\ pc = "returned"
    /\ req.op = "ListAccounts"
    /\ svcResult' =
         IF result.err # Nil
         THEN Result(<< >>, TRUE, << >>, result.err)
         ELSE Result([i \in 1..Len(result.accounts) |->
                         IF i = 1
                         THEN [result.accounts[i] EXCEPT !.LastUpdated = "now"]
                         ELSE result.accounts[i]],
                     result.isNil, << >>, Nil)
    /\ pc' = "svcReturned"
    /\ UNCHANGED << req, ctx, released, visible, pageSource, idx, found,
                    runErr, result, calls, log, expiredAt, cancelledAt,
                    failedAt, txnCalls, http, fields, shots, other,
                    env, config, input, extracted, clientCalls >>

\* --------------------------------------------------------- accountService
\* GetAllAccounts after the client returned
GetAllAccounts ==
    /\ pc = "returned"
    /\ req.op = "ListAccounts"
    /\ svcResult' =
         IF result.err # Nil
         THEN Result(<< >>, TRUE, << >>, result.err)
         ELSE Result([i \in 1..Len(result.accounts) |->
                         [result.accounts[i] EXCEPT !.LastUpdated = "now"]],
                     result.isNil, << >>, Nil)
    /\ pc' = "svcReturned"
    /\ UNCHANGED << req, ctx, released, visible, pageSource, idx, found,
                    runErr, result, calls, log, expiredAt, cancelledAt,
                    failedAt, txnCalls, http, fields, shots, other,
                    env, config, input, extracted, clientCalls >>

\* the loop of GetAccountDetails: position of the first account whose ID is
\* accountID, 0 when targetAccount stays nil
RECURSIVE FindFrom(_, _, _)
FindFrom(accounts, accountID, i) ==
    IF i > Len(accounts) THEN 0
    ELSE IF accounts[i].ID = accountID THEN i
    ELSE FindFrom(accounts, accountID, i + 1)

\* variant: the target pointer is taken before the ID comparison, so a miss
\* leaves it on the last account
FindAccount_PointerBeforeCompare(accounts, accountID) ==
    IF FindFrom(accounts, accountID, 1) # 0
    THEN FindFrom(accounts, accountID, 1)
    ELSE Len(accounts)

FindAccount(accounts, accountID) == FindFrom(accounts, accountID, 1)

\* GetAccountDetails after the client's GetAccounts returned
GetAccountDetails ==
    /\ pc = "returned"
    /\ req.op = "GetAccount"
    /\ LET target == FindAccount(result.accounts, req.accountID) IN
       IF result.err # Nil
       THEN /\ svcResult' = Result(<< >>, TRUE, << >>, result.err)
            /\ UNCHANGED << txnCalls, log, clientCalls >>
       ELSE IF target = 0
       THEN /\ svcResult' = Result(<< >>, TRUE, << >>, ErrAccountNotFound)
            /\ UNCHANGED << txnCalls, log, clientCalls >>
       ELSE LET transactions == GetAccountTransactions(req.client, req.accountID)
                details ==
                  [Account |-> [result.accounts[target] EXCEPT !.LastUpdated = "now"],
                   Transactions |-> transactions,
                   RecentTransactionCount |-> Len(transactions)]
            IN /\ svcResult' = Result(<< >>, TRUE, << details >>, Nil)
               /\ txnCalls' = Append(txnCalls, req.accountID)
               /\ clientCalls' = Append(clientCalls, "GetAccountTransactions")
               /\ log' = IF req.client = "browser"
                         THEN Append(log, LogRec("Scraping transactions for account %s...",
                                                 req.accountID, Nil, 0))
                         ELSE log
    /\ pc' = "svcReturned"
    /\ UNCHANGED << req, ctx, released, visible, pageSource, idx, found,
                    runErr, result, calls, expiredAt, cancelledAt, failedAt,
                    http, fields, shots, other,
                    env, config, input, extracted >>

\* --------------------------------------------------------- AccountsHandler
Response(status, error, count) ==
    [status |-> status, error |-> error, count |-> count]

\* ListAccounts after the service returned
ListAccounts ==
    /\ pc = "svcReturned"
    /\ req.op = "ListAccounts"
    /\ IF svcResult.err # Nil
       THEN /\ http' = Response(500, "INTERNAL_ERROR", 0)
            /\ log' = Append(log, LogRec("Failed to get accounts: %v", "", svcResult.err, 0))
       ELSE /\ http' = Response(200, "", Len(svcResult.accounts))
            /\ log' = log
    /\ pc' = "responded"
    /\ UNCHANGED << req, ctx, released, visible, pageSource, idx, found,
                    runErr, result, calls, expiredAt, cancelledAt, failedAt,
                    svcResult, txnCalls, fields, shots, other,
                    env, config, input, extracted, clientCalls >>

\* the switch on err in GetAccount: cases compare err itself with a sentinel
GetAccountError(err) ==
    CASE err = ErrAccountNotFound      -> Response(404, "ACCOUNT_NOT_FOUND", 0)
      [] err = ErrServiceUnavailable   -> Response(503, "SERVICE_UNAVAILABLE", 0)
      [] err = ErrAuthenticationFailed -> Response(401, "AUTHENTICATION_FAILED", 0)
      [] OTHER                         -> Response(500, "INTERNAL_ERROR", 0)

\* GetAccount after the service returned
GetAccount ==
    /\ pc = "svcReturned"
    /\ req.op = "GetAccount"
    /\ IF svcResult.err # Nil
       THEN /\ http' = GetAccountError(svcResult.err)
            /\ log' = IF GetAccountError(svcResult.err).status = 500
                      THEN Append(log, LogRec("Failed to get account details: %v", "",
                                              svcResult.err, 0))
                      ELSE log
       ELSE /\ http' = Response(200, "", 1)
            /\ log' = log
    /\ pc' = "responded"
    /\ UNCHANGED << req, ctx, released, visible, pageSource, idx, found,
                    runErr, result, calls, expiredAt, cancelledAt, failedAt,
                    svcResult, txnCalls, fields, shots, other,
                    env, config, input, extracted, clientCalls >>

\* ------------------------------------------------------------ specification
Next ==
    \/ Request
    \/ MockGetAccounts
    \/ GetAccounts
    \/ Expire
    \/ CallerCancel
    \/ Run
    \/ Navigate
    \/ WaitBody
    \/ clickLoginButton
    \/ clickLoginButton_Click
    \/ selectInternetBanking_Sleep
    \/ selectInternetBanking
    \/ selectInternetBanking_Click
    \/ findUsername
    \/ findPassword
    \/ findSubmit
    \/ SendKeysUsername
    \/ SendKeysPassword
    \/ ClickSubmit
    \/ WaitBodyAfterLogin
    \/ Sleep
    \/ scrapeAccounts_Sleep
    \/ scrapeAccounts
    \/ GetAccounts_Failed
    \/ GetAllAccounts
    \/ GetAccountDetails
    \/ ListAccounts
    \/ GetAccount

Spec == Init /\ [][Next]_vars

\* ------------------------------------- two GetAccounts calls on one client
\* every variable but the second call's: the locals of the first call
\* (contexts, accounts, error), its browser session, what it wrote to the
\* logger, and the config both calls read
callVars == << pc, req, ctx, released, visible, pageSource, idx, found, runErr,
              result, calls, log, expiredAt, cancelledAt, failedAt, svcResult,
              txnCalls, http, fields, shots, env, config, input, extracted,
              clientCalls >>

\* the second call enters GetAccounts on the same client: its own three
\* contexts are created; log.Logger serialises the writes of the two calls,
\* and the records of the second call are kept in its own sequence
OtherGetAccounts ==
    /\ other.pc = "none"
    /\ other' = [other EXCEPT
         !.pc = "Run",
         !.ctx = [c \in DOMAIN other.ctx |-> "live"],
         !.log = << LogRec("Starting NAB account scraping...", "", Nil, 0) >>]
    /\ UNCHANGED callVars

\* chromedp.Run of the second call, as one step: it fails with an engine
\* error, or the login goes through and the page of its own session is read
OtherRun ==
    /\ other.pc = "Run"
    /\ \/ other' = [other EXCEPT !.pc = "failed", !.runErr = EngineErr]
       \/ \E source \in PageSources :
            other' = [other EXCEPT
               !.pc = "scraped",
               !.pageSource = source,
               !.log = other.log \o
                  << LogRec("Extracting accounts from page source...", "", Nil, 0) >>]
    /\ UNCHANGED callVars

\* variant: the contexts are fields of the client, and the deferred cancels
\* of the second call cancel the contexts of the first
OtherReturn_SharedContexts ==
    /\ other.pc \in {"failed", "scraped"}
    /\ LET accounts == extractAccountsGeneric(other.pageSource) IN
       other' = [other EXCEPT
         !.pc = "returned",
         !.result =
            IF other.pc = "failed"
            THEN Result(<< >>, TRUE, << >>,
                        Wrapf("failed to scrape NAB accounts", other.runErr))
            ELSE Result(accounts, FALSE, << >>, Nil),
         !.log = IF other.pc = "failed" THEN other.log
                 ELSE Append(other.log,
                        LogRec("Successfully scraped %d accounts", "", Nil,
                               Len(accounts))),
         !.overlap = InProgress]
    /\ ctx' = AfterCancel(DeferredCancels)
    /\ UNCHANGED << pc, req, released, visible, pageSource, idx, found, runErr,
                    result, calls, log, expiredAt, cancelledAt, failedAt,
                    svcResult, txnCalls, http, fields, shots, env, config,
                    input, extracted, clientCalls >>

\* the return of the second call: its own result, its own deferred cancels;
\* overlap records that the first call was still in progress
OtherReturn ==
    /\ other.pc \in {"failed", "scraped"}
    /\ LET accounts == extractAccountsGeneric(other.pageSource) IN
       other' = [other EXCEPT
         !.pc = "returned",
         !.ctx = [c \in DOMAIN other.ctx |-> "canceled"],
         !.result =
            IF other.pc = "failed"
            THEN Result(<< >>, TRUE, << >>,
                        Wrapf("failed to scrape NAB accounts", other.runErr))
            ELSE Result(accounts, FALSE, << >>, Nil),
         !.log = IF other.pc = "failed" THEN other.log
                 ELSE Append(other.log,
                        LogRec("Successfully scraped %d accounts", "", Nil,
                               Len(accounts))),
         !.overlap = InProgress]
    /\ UNCHANGED callVars

\* two calls of GetAccounts (cmd/test-browser style, without the handler) on
\* one NABClient
InitConc ==
    /\ Init
    /\ req = [op |-> "GetAccounts", accountID |-> "", client |-> "browser"]

NextConc ==
    \/ Request
    \/ GetAccounts
    \/ Expire
    \/ CallerCancel
    \/ Run
    \/ Navigate
    \/ WaitBody
    \/ clickLoginButton
    \/ clickLoginButton_Click
    \/ selectInternetBanking_Sleep
    \/ selectInternetBanking
    \/ selectInternetBanking_Click
    \/ findUsername
    \/ findPassword
    \/ findSubmit
    \/ SendKeysUsername
    \/ SendKeysPassword
    \/ ClickSubmit
    \/ WaitBodyAfterLogin
    \/ Sleep
    \/ scrapeAccounts_Sleep
    \/ scrapeAccounts
    \/ GetAccounts_Failed
    \/ OtherGetAccounts
    \/ OtherRun
    \/ OtherReturn

SpecConc == InitConc /\ [][NextConc]_vars

\* ------------------------------------------ extraction over page texts
\* pieces of page text: the characters the pattern looks at, an amount, and
\* text between amounts
Fragments ==
    { << "$" >>, << "," >>, << "1" >>, << ".", "0", "5" >>,
      << "$", "7", ".", "2", "5" >>, << " " >> }

\* most pieces in one page text
MaxFragments == 4

\* the page texts of at most n pieces
RECURSIVE Texts(_)
Texts(n) ==
    IF n = 0 THEN { << >> }
    ELSE LET shorter == Texts(n - 1) IN
         shorter \cup { t \o f : t \in shorter, f \in Fragments }

\* GetAccounts of the mock client about to run, or GetAccounts of the
\* scraping client at scrapeAccounts, logged in, on some page text
InitExtract ==
    /\ req \in [op : {"GetAccounts"}, accountID : {""}, client : {"mock", "browser"}]
    /\ pc = IF req.client = "mock" THEN "GetAccounts" ELSE "scrapeAccounts"
    /\ pageSource \in IF req.client = "mock" THEN { << >> } ELSE Texts(MaxFragments)
    /\ ctx = [c \in {"timeoutCtx", "browserCtx", "allocCtx"} |->
                IF req.client = "mock" THEN "none" ELSE "live"]
    /\ released = {}
    /\ visible = NoneVisible
    /\ idx = 0
    /\ found = [r \in Roles |-> ""]
    /\ runErr = Nil
    /\ result = NoResult
    /\ calls = << >>
    /\ log = << >>
    /\ expiredAt = "none"
    /\ cancelledAt = "none"
    /\ failedAt = "none"
    /\ svcResult = NoResult
    /\ txnCalls = << >>
    /\ http = NoHTTP
    /\ fields = NoFields
    /\ shots = << >>
    /\ other = NoOther
    /\ env = << >>
    /\ config = LoadedConfig(env)
    /\ input = << >>
    /\ extracted = NoExtracted
    /\ clientCalls = << >>

NextExtract ==
    \/ MockGetAccounts
    \/ scrapeAccounts

SpecExtract == InitExtract /\ [][NextExtract]_vars

\* ------------------------------------------------ LoadConfig over env values
\* characters of a BROWSER_TIMEOUT value: digits and unit letters
EnvChars == {"0", "1", "3", "6", "s", "m"}

\* most characters in a BROWSER_TIMEOUT value
MaxEnvLen == 3

\* the values of at most n characters; << >> is the unset variable
RECURSIVE EnvValues(_)
EnvValues(n) ==
    IF n = 0 THEN { << >> }
    ELSE LET shorter == EnvValues(n - 1) IN
         shorter \cup { Append(v, c) : v \in shorter, c \in EnvChars }

\* the process starts with some value of BROWSER_TIMEOUT in its environment
InitConfig ==
    /\ pc = "LoadConfig"
    /\ req = [op |-> "GetAccounts", accountID |-> "", client |-> "browser"]
    /\ ctx = [c \in {"timeoutCtx", "browserCtx", "allocCtx"} |-> "none"]
    /\ released = {}
    /\ visible = NoneVisible
    /\ pageSource = << >>
    /\ idx = 0
    /\ found = [r \in Roles |-> ""]
    /\ runErr = Nil
    /\ result = NoResult
    /\ calls = << >>
    /\ log = << >>
    /\ expiredAt = "none"
    /\ cancelledAt = "none"
    /\ failedAt = "none"
    /\ svcResult = NoResult
    /\ txnCalls = << >>
    /\ http = NoHTTP
    /\ fields = NoFields
    /\ shots = << >>
    /\ other = NoOther
    /\ env \in EnvValues(MaxEnvLen)
    /\ config = NoConfig
    /\ input = << >>
    /\ extracted = NoExtracted
    /\ clientCalls = << >>

\* config.LoadConfig, with NAB_USERNAME and NAB_PASSWORD set
LoadConfig ==
    /\ pc = "LoadConfig"
    /\ config' = LoadedConfig(env)
    /\ pc' = "idle"
    /\ UNCHANGED << req, ctx, released, visible, pageSource, idx, found,
                    runErr, result, calls, log, expiredAt, cancelledAt,
                    failedAt, svcResult, txnCalls, http, fields, shots, other,
                    env, input, extracted, clientCalls >>

NextConfig == LoadConfig

SpecConfig == InitConfig /\ [][NextConfig]_vars

\* ------------------------------------ extraction helpers over their inputs
\* pieces of account text: the keywords in several spellings, and other text
Words ==
    { << "S", "a", "v", "e", "r" >>,
      << "S", "A", "V", "I", "N", "G", "S" >>,
      << "c", "r", "e", "d", "i", "t" >>,
      << "L", "o", "a", "n" >>,
      << "I", "n", "v", "e", "s", "t", "m", "e", "n", "t" >>,
      << " ", "c", "a", "r", "d", " " >> }

\* most pieces in one account text
MaxWords == 3

\* the account texts of at most n pieces
RECURSIVE WordTexts(_)
WordTexts(n) ==
    IF n = 0 THEN { << >> }
    ELSE LET shorter == WordTexts(n - 1) IN
         shorter \cup { t \o w : t \in shorter, w \in Words }

\* a helper is about to be called on an account text or on a page text
InitHelpers ==
    /\ pc = "helper"
    /\ req = [op |-> "GetAccounts", accountID |-> "", client |-> "browser"]
    /\ ctx = [c \in {"timeoutCtx", "browserCtx", "allocCtx"} |-> "none"]
    /\ released = {}
    /\ visible = NoneVisible
    /\ pageSource = << >>
    /\ idx = 0
    /\ found = [r \in Roles |-> ""]
    /\ runErr = Nil
    /\ result = NoResult
    /\ calls = << >>
    /\ log = << >>
    /\ expiredAt = "none"
    /\ cancelledAt = "none"
    /\ failedAt = "none"
    /\ svcResult = NoResult
    /\ txnCalls = << >>
    /\ http = NoHTTP
    /\ fields = NoFields
    /\ shots = << >>
    /\ other = NoOther
    /\ env = << >>
    /\ config = LoadedConfig(env)
    /\ input \in WordTexts(MaxWords) \cup Texts(MaxFragments)
    /\ extracted = NoExtracted
    /\ clientCalls = << >>

\* a call of extractAccountType(input)
CallExtractAccountType ==
    /\ pc = "helper"
    /\ extracted' = [fn |-> "extractAccountType",
                     type |-> extractAccountType(input), balance |-> << >>]
    /\ pc' = "helperReturned"
    /\ UNCHANGED << req, ctx, released, visible, pageSource, idx, found,
                    runErr, result, calls, log, expiredAt, cancelledAt,
                    failedAt, svcResult, txnCalls, http, fields, shots, other,
                    env, config, input, clientCalls >>

\* a call of extractBalance(input)
CallExtractBalance ==
    /\ pc = "helper"
    /\ extracted' = [fn |-> "extractBalance",
                     type |-> "", balance |-> extractBalance(input)]
    /\ pc' = "helperReturned"
    /\ UNCHANGED << req, ctx, released, visible, pageSource, idx, found,
                    runErr, result, calls, log, expiredAt, cancelledAt,
                    failedAt, svcResult, txnCalls, http, fields, shots, other,
                    env, config, input, clientCalls >>

NextHelpers ==
    \/ CallExtractAccountType
    \/ CallExtractBalance

SpecHelpers == InitHelpers /\ [][NextHelpers]_vars

\* ================================================================ properties
\* the browser client's GetAccounts has returned
BrowserReturned == req.client = "browser" /\ result.set

\* the calls of takeScreenshot so far (each issues one CaptureScreenshot)
Screenshots == SelectSeq(calls, LAMBDA c : c.op = "CaptureScreenshot")

\* the visibility probes of one role so far, in call order
Probes(role) ==
    SelectSeq(calls, LAMBDA c : c.op = "WaitVisible" /\ c.role = role)

\* the clicks and fills of one role so far
Uses(role) ==
    SelectSeq(calls, LAMBDA c : c.op \in {"Click", "SendKeys"} /\ c.role = role)

AllContextsDone == \A c \in DOMAIN ctx : CtxDone(c)

\* the steps of clickLoginButton, selectInternetBanking and performLogin
LoginSteps ==
    {"clickLoginButton", "clickLoginButton_Click", "selectInternetBanking_Sleep",
     "selectInternetBanking", "selectInternetBanking_Click", "findUsername",
     "findPassword", "findSubmit", "SendKeysUsername", "SendKeysPassword",
     "ClickSubmit"}

\* the roles resolved from a candidate list
CandidateRoles == {"loginButton", "internetBanking", "username", "password", "submit"}

\* an error a caller can recognise as a timeout
IsTimeout(err) == Is(err, DeadlineExceeded)

\* C1: every failed GetAccounts call invokes takeScreenshot exactly once.
C1_ScreenshotOncePerFailure ==
    (BrowserReturned /\ result.err # Nil) => Len(Screenshots) = 1

\* C2: when the session timer fires during a login step, GetAccounts returns
\* an error recognisable as a timeout and all three contexts are cancelled.
C2_TimeoutDuringLoginClassified ==
    (BrowserReturned /\ expiredAt \in LoginSteps /\ cancelledAt = "none")
      => /\ result.err # Nil
         /\ IsTimeout(result.err)
         /\ AllContextsDone

\* C3: when the session timer fires during any step of GetAccounts, the
\* call returns a failure and the contexts are cancelled.
C3_ExhaustedBudgetFails ==
    (BrowserReturned /\ expiredAt \in RunSteps)
      => (result.err # Nil /\ AllContextsDone)

C5_ContextsCancelledOnReturn ==
    BrowserReturned => AllContextsDone

\* a successful return on which neither the timer nor the caller ended a context
C5_Witness ==
    /\ BrowserReturned
    /\ result.err = Nil
    /\ expiredAt = "none"
    /\ cancelledAt = "none"
    /\ AllContextsDone

\* C6: the candidates of a role are probed in list order, no candidate is
\* probed after one whose probe succeeded, and the click or fill of the role
\* uses the candidate whose probe succeeded.
C6_FirstMatchWins ==
    \A role \in CandidateRoles :
        LET P == Probes(role) IN
        /\ Len(P) <= Len(Selectors(role))
        /\ \A k \in 1..Len(P) : P[k].sel = Selectors(role)[k]
        /\ \A k \in 1..Len(P) : P[k].err = Nil => k = Len(P)
        /\ \A u \in 1..Len(Uses(role)) :
              /\ Len(P) > 0
              /\ P[Len(P)].err = Nil
              /\ Uses(role)[u].sel = P[Len(P)].sel

\* two username candidates are visible, the first was probed and resolved,
\* and the username was typed into it
C6_Witness ==
    /\ visible["username"] = {1, 2}
    /\ Len(Probes("username")) = 1
    /\ Len(Uses("username")) = 1
    /\ Uses("username")[1].sel = loginSelectors[1]
    /\ Uses("username")[1].err = Nil

\* C7: when the first candidate of a list never becomes visible and a later
\* one is visible (and the caller does not cancel), the resolution succeeds
\* with a later, visible candidate.
C7_LaterCandidateResolves ==
    \A role \in CandidateRoles :
        ( /\ Len(Probes(role)) > 0
          /\ pc \in {"failed", "returned", "svcReturned", "responded"}
          /\ cancelledAt = "none"
          /\ visible[role] # {}
          /\ 1 \notin visible[role] )
        => \E i \in visible[role] : found[role] = Selectors(role)[i]

\* C8: every error GetAccounts returns is of exactly one of the kinds
\* authentication failed, timeout, transient unavailable.
C8_ErrorsClassified ==
    (BrowserReturned /\ result.err # Nil)
      => Cardinality({k \in {"auth", "timeout", "unavailable"} :
             \/ k = "auth" /\ Is(result.err, ErrAuthenticationFailed)
             \/ k = "timeout" /\ IsTimeout(result.err)
             \/ k = "unavailable" /\ Is(result.err, ErrServiceUnavailable)}) = 1

\* a login step failed for a reason other than the timer or the caller
AuthenticationFailure ==
    failedAt \in LoginSteps /\ expiredAt = "none" /\ cancelledAt = "none"

\* the browser could not be started or could not navigate
TransientFailure ==
    failedAt \in {"Run", "Navigate"} /\ runErr = EngineErr

\* C9: ListAccounts and GetAccount answer an authentication or transient
\* failure of the scraping client with 503 SERVICE_UNAVAILABLE and an unknown
\* account ID with 404 ACCOUNT_NOT_FOUND.
C9_FailuresAnswered503 ==
    (pc = "responded" /\ BrowserReturned)
      => /\ (AuthenticationFailure \/ TransientFailure)
              => (http.status = 503 /\ http.error = "SERVICE_UNAVAILABLE")
         /\ ( /\ req.op = "GetAccount"
              /\ result.err = Nil
              /\ FindFrom(result.accounts, req.accountID, 1) = 0 )
              => (http.status = 404 /\ http.error = "ACCOUNT_NOT_FOUND")

\* C10: GetAccountDetails for an ID that no account of the client's listing
\* has returns exactly ErrAccountNotFound and a nil result, and does not call
\* GetAccountTransactions.
C10_UnknownIDNotFound ==
    ( /\ pc \in {"svcReturned", "responded"}
      /\ req.op = "GetAccount"
      /\ result.set
      /\ result.err = Nil
      /\ \A i \in 1..Len(result.accounts) : result.accounts[i].ID # req.accountID )
    => /\ svcResult.err = ErrAccountNotFound
       /\ svcResult.details = << >>
       /\ svcResult.isNil
       /\ txnCalls = << >>

\* the scraping client listed two accounts and a third ID was asked for
C10_Witness ==
    /\ pc = "svcReturned"
    /\ req.op = "GetAccount"
    /\ req.client = "browser"
    /\ Len(result.accounts) = 2
    /\ req.accountID = "doesnotexist"
    /\ svcResult.err = ErrAccountNotFound

\* the credentials of the config
Credentials == {Username, Password}

\* a log record carries the text as its format or as one of its arguments
LogMentions(rec, text) ==
    \/ rec.msg = text
    \/ rec.sel = text
    \/ \E k \in 1..Len(rec.err) : rec.err[k] = text

LoginCalls == SelectSeq(calls, LAMBDA c : c.op # "CaptureScreenshot")

\* the step of the sequence an engine call belongs to: 1 navigate to the
\* base URL, 2 click the login button, 3 click the internet-banking link,
\* 4 submit the credentials, 5 wait for the page and extract
Phase(c) ==
    CASE c.op \in {"Allocate", "Navigate"} \/ c.role = "body"   -> 1
      [] c.role = "loginButton"                                 -> 2
      [] c.role = "internetBanking" \/ (c.op = "Sleep" /\ c.arg = "1s") -> 3
      [] c.role \in {"username", "password", "submit"}          -> 4
      [] OTHER                                                  -> 5

\* the step of the sequence a position of GetAccounts belongs to
StepPhase(step) ==
    CASE step \in {"Run", "Navigate", "WaitBody"}                       -> 1
      [] step \in {"clickLoginButton", "clickLoginButton_Click"}        -> 2
      [] step \in {"selectInternetBanking_Sleep", "selectInternetBanking",
                   "selectInternetBanking_Click"}                       -> 3
      [] step \in {"findUsername", "findPassword", "findSubmit",
                   "SendKeysUsername", "SendKeysPassword", "ClickSubmit"} -> 4
      [] OTHER                                                          -> 5

\* the call with which step p of the sequence succeeds
Completes(c, p) ==
    /\ c.err = Nil
    /\ CASE p = 1 -> c.op = "WaitVisible" /\ c.role = "body"
         [] p = 2 -> c.op = "Click" /\ c.role = "loginButton"
         [] p = 3 -> c.op = "Click" /\ c.role = "internetBanking"
         [] p = 4 -> c.op = "Click" /\ c.role = "submit"
         [] OTHER -> FALSE

\* C12: the steps of GetAccounts occur only in the order navigate, login
\* button, internet-banking link, credentials, extraction; a step starts only
\* after the previous one succeeded, and after a step failed no later call of
\* the sequence is made.
C12_StepsInOrder ==
    LET N == LoginCalls IN
    /\ \A i \in 1..(Len(N) - 1) : Phase(N[i]) <= Phase(N[i + 1])
    /\ \A j \in 1..Len(N) :
         Phase(N[j]) > 1 =>
            \E i \in 1..(j - 1) : Completes(N[i], Phase(N[j]) - 1)
    /\ \A j \in 1..Len(N) :
         N[j].op = "OuterHTML" =>
            /\ \E i \in 1..(j - 1) :
                 N[i].op = "WaitVisible" /\ N[i].role = "bodyAfterLogin"
                 /\ N[i].err = Nil
            /\ \E i \in 1..(j - 1) :
                 N[i].op = "Sleep" /\ N[i].arg = "3s" /\ N[i].err = Nil
    /\ failedAt # "none" =>
         /\ Len(N) > 0
         /\ N[Len(N)].err # Nil
         /\ Phase(N[Len(N)]) = StepPhase(failedAt)

\* the click on the internet-banking link failed after the first two steps
\* succeeded, and GetAccounts returned
C12_Witness ==
    /\ BrowserReturned
    /\ failedAt = "selectInternetBanking_Click"
    /\ \E i \in 1..Len(calls) : Completes(calls[i], 2)

\* the calls of performLogin that act on the form: the typing and the click
\* on the submit control
FormActions ==
    SelectSeq(calls, LAMBDA c : c.op = "SendKeys"
                                \/ (c.op = "Click" /\ c.role = "submit"))

\* the order performLogin acts on the form in
FormOrder ==
    << [op |-> "SendKeys", role |-> "username", arg |-> Username],
       [op |-> "SendKeys", role |-> "password", arg |-> Password],
       [op |-> "Click",    role |-> "submit",   arg |-> ""] >>

\* the role resolved to the selector before position j of the calls
ResolvedBefore(role, sel, j) ==
    \E i \in 1..(j - 1) :
        /\ calls[i].op = "WaitVisible"
        /\ calls[i].role = role
        /\ calls[i].sel = sel
        /\ calls[i].err = Nil

\* C13: nothing is typed unless the username field, the password field and
\* the submit control all resolved; then the username is typed, then the
\* password, then the submit control is clicked, and a failure of one of
\* these prevents the later ones.
C13_FormFilledInOrder ==
    LET U == FormActions IN
    /\ \A j \in 1..Len(calls) :
         calls[j].op = "SendKeys" =>
            \A role \in {"username", "password", "submit"} :
               /\ found[role] # ""
               /\ ResolvedBefore(role, found[role], j)
    /\ Len(U) <= Len(FormOrder)
    /\ \A k \in 1..Len(U) :
         /\ U[k].op = FormOrder[k].op
         /\ U[k].role = FormOrder[k].role
         /\ U[k].arg = FormOrder[k].arg
         /\ U[k].sel = found[U[k].role]
         /\ k < Len(U) => U[k].err = Nil

\* all three resolved, both credentials were typed and the submit control
\* was clicked
C13_Witness ==
    /\ Len(FormActions) = 3
    /\ FormActions[3].err = Nil

\* the calls of one operation so far
CallsOf(op) == SelectSeq(calls, LAMBDA c : c.op = op)

\* C14: within one GetAccounts call each candidate of each set is probed at
\* most once, each click or fill is issued at most once, the navigation and
\* the page-source read happen at most once, and a step that failed is
\* reported, not attempted again.
C14_NothingAttemptedTwice ==
    /\ \A role \in Roles :
         LET P == Probes(role) IN
         \A a, b \in 1..Len(P) : a < b => P[a].sel # P[b].sel
    /\ \A role \in Roles : Len(Uses(role)) <= 1
    /\ \A op \in {"Allocate", "Navigate", "OuterHTML"} : Len(CallsOf(op)) <= 1
    /\ (BrowserReturned /\ failedAt # "none") => result.err # Nil

\* every candidate of the login button was probed and none resolved; the
\* failure was returned
C14_Witness ==
    /\ BrowserReturned
    /\ failedAt = "clickLoginButton"
    /\ Len(Probes("loginButton")) = Len(loginButtonSelectors)
    /\ result.err # Nil

\* the error chromedp.Run returns when the step failed: the not-found error
\* of a resolution step, else the error of the engine call that failed
PrimaryError(step) ==
    CASE step = "clickLoginButton" -> Errorf("could not find login button")
      [] step = "selectInternetBanking" ->
            Errorf("could not find Internet Banking link in dropdown")
      [] step = "findUsername" -> Errorf("could not find username input field")
      [] step = "findPassword" -> Errorf("could not find password input field")
      [] step = "findSubmit"   -> Errorf("could not find submit button")
      [] OTHER -> LoginCalls[Len(LoginCalls)].err

\* C15: takeScreenshot is not called in a GetAccounts call that returns
\* success, and the error GetAccounts returns is the error of the step that
\* failed, whatever the captures returned.
C15_CaptureNeverMasks ==
    BrowserReturned =>
        /\ result.err = Nil => Screenshots = << >>
        /\ result.err # Nil =>
             /\ failedAt # "none"
             /\ result.err = Wrapf("failed to scrape NAB accounts",
                                   PrimaryError(failedAt))

\* the run failed with an engine error, the capture then failed with the
\* deadline, and the error returned is not the capture's
C15_Witness ==
    /\ BrowserReturned
    /\ Len(Screenshots) > 0
    /\ Screenshots[Len(Screenshots)].err = DeadlineExceeded
    /\ result.err # Nil
    /\ ~IsTimeout(result.err)

\* the login succeeded: chromedp.Run returned without error and the
\* extraction ran
LoginSucceeded == BrowserReturned /\ failedAt = "none" /\ Len(CallsOf("OuterHTML")) = 1

\* C16: when the login succeeds and the page holds no currency amount,
\* GetAccounts returns a nil error and an empty, non-nil account list.
C16_EmptyIsNotAnError ==
    (LoginSucceeded /\ FindAllString(pageSource) = << >>) =>
        /\ result.err = Nil
        /\ result.accounts = << >>
        /\ ~result.isNil

\* the login succeeded, the page source was read and it is a page with text
\* but without an amount
C16_Witness ==
    /\ LoginSucceeded
    /\ CallsOf("OuterHTML")[1].err = Nil
    /\ pageSource # << >>
    /\ FindAllString(pageSource) = << >>
    /\ result.accounts = << >>

\* a returned pair is a list without error, or an error with a nil list
AllOrNothing(r) ==
    \/ r.err = Nil /\ ~r.isNil
    \/ r.err # Nil /\ r.isNil /\ r.accounts = << >>

\* C17: GetAccounts and GetAllAccounts return a nil error with a list or an
\* error with a nil list, and a successful return of the scraping client
\* holds the accounts of the whole page text, or none when the page-source
\* read failed.
C17_AllOrNothing ==
    /\ result.set => AllOrNothing(result)
    /\ (svcResult.set /\ req.op = "ListAccounts") =>
          /\ AllOrNothing(svcResult)
          /\ Len(svcResult.accounts) = Len(result.accounts)
          /\ svcResult.err = result.err
    /\ (BrowserReturned /\ result.err = Nil) =>
          /\ Len(CallsOf("OuterHTML")) = 1
          /\ result.accounts =
                IF CallsOf("OuterHTML")[1].err = Nil
                THEN extractAccountsGeneric(pageSource)
                ELSE << >>

\* the page holds amounts, the page-source read failed, and the call
\* returned no account
C17_Witness ==
    /\ BrowserReturned
    /\ result.err = Nil
    /\ CallsOf("OuterHTML")[1].err # Nil
    /\ Len(FindAllString(pageSource)) = 2
    /\ result.accounts = << >>

\* what GetAccounts returns, as a function of the call's own session: the
\* step that failed, or the page its own browser showed
OwnResult ==
    IF failedAt # "none"
    THEN Result(<< >>, TRUE, << >>,
                Wrapf("failed to scrape NAB accounts", PrimaryError(failedAt)))
    ELSE Result(IF Len(CallsOf("OuterHTML")) = 1 /\ CallsOf("OuterHTML")[1].err = Nil
                THEN extractAccountsGeneric(pageSource) ELSE << >>,
                FALSE, << >>, Nil)

\* the same for the second call
OtherOwnResult ==
    IF other.runErr # Nil
    THEN Result(<< >>, TRUE, << >>,
                Wrapf("failed to scrape NAB accounts", other.runErr))
    ELSE Result(extractAccountsGeneric(other.pageSource), FALSE, << >>, Nil)

\* C18: of two GetAccounts calls on one client, each has its own contexts,
\* which only its own timer, caller and deferred cancels end, and each
\* returns the result of its own session, whatever the other call did in
\* between; the config is read, never written.
C18_CallsIndependent ==
    /\ (pc \in RunSteps /\ expiredAt = "none" /\ cancelledAt = "none") =>
          \A c \in DOMAIN ctx : ctx[c] = "live"
    /\ other.pc \in {"Run", "failed", "scraped"} =>
          \A c \in DOMAIN other.ctx : other.ctx[c] = "live"
    /\ BrowserReturned => result = OwnResult
    /\ other.pc = "returned" => other.result = OtherOwnResult
    /\ other.pc # "returned" => ~other.result.set

\* the second call failed and returned while the first was in progress; the
\* first then returned the two accounts of its own page
C18_Witness ==
    /\ BrowserReturned
    /\ other.pc = "returned"
    /\ other.overlap
    /\ other.result.err # Nil
    /\ result.err = Nil
    /\ Len(result.accounts) = 2

\* C19: in a list GetAccounts returns, of the scraping client or of the
\* mock client, no two accounts have the same ID.
C19_IDsUnique ==
    result.set =>
        \A i, j \in 1..Len(result.accounts) :
            i # j => result.accounts[i].ID # result.accounts[j].ID

\* the scraping client returned three or more accounts
C19_Witness ==
    /\ BrowserReturned
    /\ Len(result.accounts) >= 3

\* optional '-', one or more digits, '.', two digits
IsDecimal(a) ==
    LET b == IF Len(a) > 0 /\ a[1] = "-" THEN Tail(a) ELSE a
        n == Len(b)
    IN /\ n >= 4
       /\ b[n - 2] = "."
       /\ b[n - 1] \in Digits
       /\ b[n] \in Digits
       /\ \A k \in 1..(n - 3) : b[k] \in Digits

\* C20: every Balance.Amount and AvailableBalance.Amount the scraping client
\* returns is an optional '-', one or more digits, '.', and two digits.
C20_AmountsAreDecimal ==
    BrowserReturned =>
        \A i \in 1..Len(result.accounts) :
            /\ IsDecimal(result.accounts[i].Balance.Amount)
            /\ IsDecimal(result.accounts[i].AvailableBalance.Amount)

\* the occurrences of the currency-amount pattern (optional leading '$', a
\* digit, further digits and ',', '.', two digits) in a text from position i
\* on, in text order, each without its '$'
RECURSIVE AmountsFrom(_, _)
AmountsFrom(s, i) ==
    IF i > Len(s) THEN << >>
    ELSE LET j == IF s[i] = "$" THEN i + 1 ELSE i
             e == GroupEnd(s, j)
         IN IF j <= Len(s) /\ s[j] \in Digits /\ e > 0
            THEN << SubSeq(s, j, e) >> \o AmountsFrom(s, e + 1)
            ELSE AmountsFrom(s, i + 1)

\* the page source was read
PageRead == Len(CallsOf("OuterHTML")) = 1 /\ CallsOf("OuterHTML")[1].err = Nil

\* C21: the list has one account per occurrence of the currency-amount
\* pattern (optional '$', digits and ',', '.', two digits) in the page text,
\* in page order; the k-th has ID account_k and that amount without '$' and
\* ',' as its balance.
C21_OneAccountPerAmount ==
    (BrowserReturned /\ PageRead) =>
        LET amounts == AmountsFrom(pageSource, 1) IN
        /\ Len(result.accounts) = Len(amounts)
        /\ \A k \in 1..Len(result.accounts) :
             /\ result.accounts[k].ID = "account_" \o ToString(k)
             /\ k <= Len(amounts) =>
                  result.accounts[k].Balance.Amount = RemoveCommas(amounts[k])

\* C22: every account the scraping client returns has the type the keyword
\* classification gives for the page text, checking when the text holds no
\* keyword.
C22_TypeFromKeywords ==
    BrowserReturned =>
        \A i \in 1..Len(result.accounts) :
            result.accounts[i].Type = extractAccountType(pageSource)

\* the mock client's GetAccounts returned
MockReturned == req.client = "mock" /\ result.set

\* C23: the mock client's GetAccounts returns, whatever the context, a nil
\* error and the three accounts 12345678, 87654321, 11223344 with balances
\* 2543.67, 847.23, 15420.89, in this order; every call returns this list.
C23_MockListing ==
    MockReturned =>
        /\ result.err = Nil
        /\ ~result.isNil
        /\ [i \in 1..Len(result.accounts) |-> result.accounts[i].ID]
              = << "12345678", "87654321", "11223344" >>
        /\ [i \in 1..Len(result.accounts) |-> result.accounts[i].Balance.Amount]
              = << << "2", "5", "4", "3", ".", "6", "7" >>,
                   << "8", "4", "7", ".", "2", "3" >>,
                   << "1", "5", "4", "2", "0", ".", "8", "9" >> >>

\* the mock client returned its listing on a context the caller had cancelled
C23_Witness ==
    /\ MockReturned
    /\ cancelledAt = "GetAccounts"
    /\ Len(result.accounts) = 3

\* the IDs of the mock listing
MockIDs == { mockAccounts[i].ID : i \in 1..Len(mockAccounts) }

\* what a mock transaction ID starts with
TxnPrefixes == {"txn_001", "txn_002", "txn_003"}

\* C24: for an account ID of the mock listing, GetAccountDetails over the
\* mock client returns a nil error and details of that account, with three
\* transactions whose IDs end in "_" and the account ID, and a
\* RecentTransactionCount equal to the number of transactions.
C24_MockDetails ==
    (req.client = "mock" /\ req.op = "GetAccount" /\ svcResult.set
        /\ req.accountID \in MockIDs) =>
        /\ svcResult.err = Nil
        /\ Len(svcResult.details) = 1
        /\ LET details == svcResult.details[1] IN
           /\ details.Account.ID = req.accountID
           /\ Len(details.Transactions) = 3
           /\ \A t \in 1..Len(details.Transactions) :
                \E prefix \in TxnPrefixes :
                    details.Transactions[t].ID = prefix \o "_" \o req.accountID
           /\ details.RecentTransactionCount = Len(details.Transactions)

\* the details of the third account of the mock listing were returned
C24_Witness ==
    /\ req.client = "mock"
    /\ req.accountID = "11223344"
    /\ svcResult.set
    /\ Len(svcResult.details) = 1
    /\ svcResult.details[1].Account.ID = "11223344"

\* the value is a plain integer: one or more digits and nothing else
IsPlainInteger(value) ==
    value # << >> /\ \A i \in 1..Len(value) : value[i] \in Digits

\* C25: with BROWSER_TIMEOUT set to a plain integer N, LoadConfig returns a
\* BrowserTimeout of N seconds; with the variable unset, of 30 seconds.
C25_TimeoutInSeconds ==
    config.loaded =>
        /\ env = << >> => config.BrowserTimeout = 30 * Second
        /\ IsPlainInteger(env) =>
              config.BrowserTimeout = Atoi(env, 1, Len(env)) * Second

\* the text holds the keyword in some spelling of upper and lower case
Mentions(t, kw) ==
    \E i \in 1..(Len(t) - Len(kw) + 1) :
        \A k \in 1..Len(kw) : ToLowerChar(t[i + k - 1]) = kw[k]

\* C26: extractAccountType ignores case and applies the keywords in order:
\* "saver" or "savings" gives savings whatever else the text holds; else
\* "credit" gives credit; else "loan" gives loan; else "investment" gives
\* investment; a text without any of them is checking.
C26_KeywordOrder ==
    extracted.fn = "extractAccountType" =>
        LET savings == Mentions(input, kwSaver) \/ Mentions(input, kwSavings)
            credit == Mentions(input, kwCredit)
            loan == Mentions(input, kwLoan)
            investment == Mentions(input, kwInvestment)
        IN
        /\ savings => extracted.type = AccountTypeSavings
        /\ (~savings /\ credit) => extracted.type = AccountTypeCredit
        /\ (~savings /\ ~credit /\ loan) => extracted.type = AccountTypeLoan
        /\ (~savings /\ ~credit /\ ~loan /\ investment) =>
              extracted.type = AccountTypeInvestment
        /\ (~savings /\ ~credit /\ ~loan /\ ~investment) =>
              extracted.type = AccountTypeChecking

\* a text with SAVINGS in capitals and with "credit" was classified savings
C26_Witness ==
    /\ extracted.fn = "extractAccountType"
    /\ Contains(input, << "S", "A", "V", "I", "N", "G", "S" >>)
    /\ ~Contains(input, kwSaver)
    /\ ~Contains(input, kwSavings)
    /\ Contains(input, kwCredit)
    /\ extracted.type = AccountTypeSavings

\* C27: for a text on which extractBalance returns a non-empty amount,
\* extractBalance of that amount is the amount again, and the amount holds
\* no '$' and no ','.
C27_ExtractBalanceIdempotent ==
    (extracted.fn = "extractBalance" /\ extracted.balance # << >>) =>
        /\ extractBalance(extracted.balance) = extracted.balance
        /\ \A i \in 1..Len(extracted.balance) :
              extracted.balance[i] \notin {"$", ","}

\* GetAccounts failed because its context was done: the engine call that
\* ended the run returned the context's error
FailedOnDoneContext ==
    /\ BrowserReturned
    /\ result.err # Nil
    /\ Len(LoginCalls) > 0
    /\ LoginCalls[Len(LoginCalls)].err \in {DeadlineExceeded, Canceled}

\* the "Screenshot captured" records of the log
CapturedRecords ==
    SelectSeq(log, LAMBDA rec : rec.msg = "Screenshot captured: %s")

\* C28: when GetAccounts fails because the session budget expired or the
\* caller cancelled, every capture of that call runs on the context that is
\* already done and fails: there is no "Screenshot captured" record.
C28_NoCaptureAfterExpiry ==
    FailedOnDoneContext =>
        /\ CapturedRecords = << >>
        /\ shots = << >>
        /\ Len(Screenshots) >= 1
        /\ \A i \in 1..Len(Screenshots) :
              Screenshots[i].err \in {DeadlineExceeded, Canceled}

\* the session timer fired during the navigation, the call failed with the
\* deadline error, and its one capture failed with it too
C28_Witness ==
    /\ FailedOnDoneContext
    /\ expiredAt = "Navigate"
    /\ IsTimeout(result.err)
    /\ Len(Screenshots) = 1
    /\ Screenshots[1].err = DeadlineExceeded

\* an account with its LastUpdated field blanked, to compare the other fields
WithoutLastUpdated(account) == [account EXCEPT !.LastUpdated = "nil"]

\* C29: GetAllAccounts returns the client's accounts in the same order and
\* number, with every field but LastUpdated unchanged and LastUpdated set to
\* one non-nil timestamp in all of them; on a client error it returns that
\* error and a nil list.
C29_OnlyLastUpdatedChanges ==
    (req.op = "ListAccounts" /\ svcResult.set) =>
        IF result.err # Nil
        THEN /\ svcResult.err = result.err
             /\ svcResult.isNil
             /\ svcResult.accounts = << >>
        ELSE /\ svcResult.err = Nil
             /\ Len(svcResult.accounts) = Len(result.accounts)
             /\ \A i \in 1..Len(svcResult.accounts) :
                  /\ WithoutLastUpdated(svcResult.accounts[i])
                        = WithoutLastUpdated(result.accounts[i])
                  /\ svcResult.accounts[i].LastUpdated # "nil"
                  /\ svcResult.accounts[i].LastUpdated
                        = svcResult.accounts[1].LastUpdated

\* GetAllAccounts returned the two accounts the scraping client found
C29_Witness ==
    /\ req.op = "ListAccounts"
    /\ req.client = "browser"
    /\ svcResult.set
    /\ svcResult.err = Nil
    /\ Len(svcResult.accounts) = 2
    /\ svcResult.accounts[2].ID = "account_2"

====
